---- MODULE Spec2Model ----
(***************************************************************************)
(* Model of the ESLint rule props-must-be-serializable                     *)
(* (eslint-plugin-next-use-client-boundary).                               *)
(*                                                                         *)
(* The rule walks the properties of the props type of a component and, for *)
(* each property, decides from the property's resolved TypeScript type     *)
(* whether to report functionNotServerAction, invalidProp, or nothing.     *)
(*                                                                         *)
(* Strings that the code matches with regular expressions (property names  *)
(* and file names) are sequences of one-character strings, so that suffix  *)
(* and separator tests are computed, not assumed.  Names that the code     *)
(* only compares for equality in a Set (symbol names) are plain strings.   *)
(***************************************************************************)
EXTENDS Integers, Sequences, FiniteSets, TLC

VARIABLES filename, properties, idx, verdicts, reports,
          program, phase, hasUseClientDirective, cursor, queue, validated,
          typeGraph, callStack, returned, callee

vars == <<filename, properties, idx, verdicts, reports,
          program, phase, hasUseClientDirective, cursor, queue, validated,
          typeGraph, callStack, returned, callee>>

\* one call of isFunctionType or isClassType, followed frame by frame
traversalVars == <<typeGraph, callStack, returned, callee>>

\* the state of the traversal of the module by the linter
lintVars == <<program, phase, hasUseClientDirective, cursor, queue, validated>>

(***************************************************************************)
(* Bounds of the model.                                                    *)
(***************************************************************************)
\* largest number of constituents of a union / intersection built over the
\* core shapes
MaxBranches == 2
\* largest nesting depth of unions / intersections
MaxDepth == 2
\* largest number of properties of a props type with several properties
MaxProps == 3
\* largest number of export statements of a module
MaxExports == 2
MaxNodes == 2
MaxStack == 4

(***************************************************************************)
(* Character sequences.                                                    *)
(***************************************************************************)
IsSuffix(s, t) ==
  /\ Len(s) <= Len(t)
  /\ SubSeq(t, Len(t) - Len(s) + 1, Len(t)) = s

S_action       == <<"a","c","t","i","o","n">>
S_Action       == <<"A","c","t","i","o","n">>
S_submitAction == <<"s","u","b","m","i","t">> \o S_Action
S_submitaction == <<"s","u","b","m","i","t">> \o S_action
S_ACTION       == <<"A","C","T","I","O","N">>
S_Actions      == S_Action \o <<"s">>
S_onClick      == <<"o","n","C","l","i","c","k">>
S_reset        == <<"r","e","s","e","t">>
S_onReset      == <<"o","n","R","e","s","e","t">>
S_name         == <<"n","a","m","e">>
S_instance     == <<"i","n","s","t","a","n","c","e">>

S_error   == <<"e","r","r","o","r">>
S_global  == <<"g","l","o","b","a","l","-">>
S_ts      == <<"t","s">>
S_app     == <<"a","p","p">>
S_dash    == <<"d","a","s","h">>
S_my      == <<"m","y","-">>
S_comp    == <<"c","o","m","p">>

(***************************************************************************)
(* Resolved types, as the rule sees them through the compiler API:         *)
(*   flags                "Object" | "Union" | "Intersection"              *)
(*   callSignatures       result of type.getCallSignatures()               *)
(*   constructSignatures  result of type.getConstructSignatures()          *)
(*   symbol               result of type.getSymbol()                       *)
(*   types                constituents of a union / intersection           *)
(*   members              types of the properties / elements of the type   *)
(*                        (never read by the rule)                         *)
(***************************************************************************)
NoSymbol ==
  [defined |-> FALSE, name |-> "", hasDeclarations |-> FALSE,
   declarations |-> <<>>]

Symbol(n, ds) ==
  [defined |-> TRUE, name |-> n, hasDeclarations |-> TRUE,
   declarations |-> ds]

SymbolNoDeclarations(n) ==
  [defined |-> TRUE, name |-> n, hasDeclarations |-> FALSE,
   declarations |-> <<>>]

ObjectType(calls, constructs, sym, mems) ==
  [flags |-> "Object", callSignatures |-> calls,
   constructSignatures |-> constructs, symbol |-> sym, types |-> <<>>,
   members |-> mems]

\* A union has the signatures its constituents share, an intersection those
\* of any constituent; neither has a symbol of its own.
UnionType(ts) ==
  [flags |-> "Union",
   callSignatures |->
     IF \A i \in DOMAIN ts : Len(ts[i].callSignatures) > 0
     THEN <<"sig">> ELSE <<>>,
   constructSignatures |->
     IF \A i \in DOMAIN ts : Len(ts[i].constructSignatures) > 0
     THEN <<"sig">> ELSE <<>>,
   symbol |-> NoSymbol, types |-> ts, members |-> <<>>]

IntersectionType(ts) ==
  [flags |-> "Intersection",
   callSignatures |->
     IF \E i \in DOMAIN ts : Len(ts[i].callSignatures) > 0
     THEN <<"sig">> ELSE <<>>,
   constructSignatures |->
     IF \E i \in DOMAIN ts : Len(ts[i].constructSignatures) > 0
     THEN <<"sig">> ELSE <<>>,
   symbol |-> NoSymbol, types |-> ts, members |-> <<>>]

isUnion(type) == type.flags = "Union"

isIntersection(type) == type.flags = "Intersection"

(***************************************************************************)
(* The rule.                                                               *)
(***************************************************************************)
\* a variant of the list without the subtypes of Error
SERIALIZABLE_BUILT_INS_baseErrorOnly ==
  {"Date", "Map", "Set", "Promise", "RegExp", "Error",
   "ArrayBuffer", "Int8Array", "Uint8Array", "Uint8ClampedArray",
   "Int16Array", "Uint16Array", "Int32Array", "Uint32Array", "Float32Array",
   "Float64Array", "BigInt64Array", "BigUint64Array", "DataView", "Blob",
   "File", "FileList", "ImageData", "ImageBitmap", "Array", "Object"}

SERIALIZABLE_BUILT_INS ==
  {"Date", "Map", "Set", "Promise", "RegExp", "Error", "EvalError",
   "RangeError", "ReferenceError", "SyntaxError", "TypeError", "URIError",
   "ArrayBuffer", "Int8Array", "Uint8Array", "Uint8ClampedArray",
   "Int16Array", "Uint16Array", "Int32Array", "Uint32Array", "Float32Array",
   "Float64Array", "BigInt64Array", "BigUint64Array", "DataView", "Blob",
   "File", "FileList", "ImageData", "ImageBitmap", "Array", "Object"}

isSerializableBuiltIn_never(type) == FALSE

\* a variant that accepts a name that starts with an entry of the list
isSerializableBuiltIn_startsWith(type) ==
  IF ~type.symbol.defined
  THEN FALSE
  ELSE \E b \in SERIALIZABLE_BUILT_INS :
         /\ Len(b) <= Len(type.symbol.name)
         /\ SubSeq(type.symbol.name, 1, Len(b)) = b

\* a variant that accepts the name only for a type no class declares
isSerializableBuiltIn_hostOnly(type) ==
  IF ~type.symbol.defined
  THEN FALSE
  ELSE /\ type.symbol.name \in SERIALIZABLE_BUILT_INS
       /\ \A j \in DOMAIN type.symbol.declarations :
             type.symbol.declarations[j] # "ClassDeclaration"

isSerializableBuiltIn(type) ==
  IF ~type.symbol.defined
  THEN FALSE
  ELSE type.symbol.name \in SERIALIZABLE_BUILT_INS

isFunctionType_ownSignaturesOnly(type) == Len(type.callSignatures) > 0

isFunctionType_geq(type) == Len(type.callSignatures) >= 0

RECURSIVE isFunctionType(_)
isFunctionType(type) ==
  IF Len(type.callSignatures) > 0
  THEN TRUE
  ELSE IF isUnion(type)
       THEN \E i \in DOMAIN type.types : isFunctionType(type.types[i])
       ELSE IF isIntersection(type)
            THEN \E i \in DOMAIN type.types : isFunctionType(type.types[i])
            ELSE FALSE

HasClassDeclaration_anyDeclaration(type) ==
  /\ type.symbol.defined
  /\ type.symbol.hasDeclarations
  /\ type.symbol.declarations # <<>>

\* ts.isClassDeclaration(declaration) for some declaration of the symbol
HasClassDeclaration(type) ==
  /\ type.symbol.defined
  /\ type.symbol.hasDeclarations
  /\ \E j \in DOMAIN type.symbol.declarations :
        type.symbol.declarations[j] = "ClassDeclaration"

isClassType_noRecursion(type) ==
  IF Len(type.constructSignatures) > 0
  THEN ~isSerializableBuiltIn(type)
  ELSE IF HasClassDeclaration(type)
       THEN ~isSerializableBuiltIn(type)
       ELSE FALSE

RECURSIVE isClassType(_)
isClassType(type) ==
  IF Len(type.constructSignatures) > 0
  THEN ~isSerializableBuiltIn(type)
  ELSE IF HasClassDeclaration(type)
       THEN ~isSerializableBuiltIn(type)
       ELSE IF isUnion(type)
            THEN \E i \in DOMAIN type.types : isClassType(type.types[i])
            ELSE IF isIntersection(type)
                 THEN \E i \in DOMAIN type.types : isClassType(type.types[i])
                 ELSE FALSE

ActionRegex_lowercase(propName) == IsSuffix(S_action, propName)

ActionRegex_unanchored(propName) ==
  \E k \in 1..Len(propName) :
    k + 5 <= Len(propName) /\ SubSeq(propName, k, k + 5) = S_Action

\* /Action$/.test(propName)
ActionRegex(propName) == IsSuffix(S_Action, propName)

ErrorFileRegex_noSeparator(file) ==
  \E g \in {<<>>, S_global}, x \in {<<>>, <<"x">>} :
    IsSuffix(g \o S_error \o <<".">> \o S_ts \o x, file)

ErrorFileRegex_startOrSeparator(file) ==
  \E i \in 0..Len(file) :
    /\ i = 0 \/ file[i] \in {"\\", "/"}
    /\ \E g \in {<<>>, S_global}, x \in {<<>>, <<"x">>} :
          SubSeq(file, i + 1, Len(file)) = g \o S_error \o <<".">> \o S_ts \o x

\* /[\\/](global-)?error\.tsx?$/.test(filename)
ErrorFileRegex(file) ==
  \E i \in 1..Len(file) :
    /\ file[i] \in {"\\", "/"}
    /\ \E g \in {<<>>, S_global}, x \in {<<>>, <<"x">>} :
          SubSeq(file, i + 1, Len(file)) = g \o S_error \o <<".">> \o S_ts \o x

Classify_classFirst(propName, propType, file) ==
  IF isClassType(propType)
  THEN "InvalidClass"
  ELSE IF isFunctionType(propType)
       THEN IF propName = S_action \/ ActionRegex(propName)
            THEN "Serializable"
            ELSE IF propName = S_reset /\ ErrorFileRegex(file)
                 THEN "Serializable"
                 ELSE "FunctionNotAction"
       ELSE "Serializable"

\* a variant in which an exempt function goes on to the class test
Classify_classWhenExempt(propName, propType, file) ==
  IF /\ isFunctionType(propType)
     /\ ~(propName = S_action \/ ActionRegex(propName))
     /\ ~(propName = S_reset /\ ErrorFileRegex(file))
  THEN "FunctionNotAction"
  ELSE IF isClassType(propType)
       THEN "InvalidClass"
       ELSE "Serializable"

\* a variant that tests the name and the file before the type
Classify_exemptionsFirst(propName, propType, file) ==
  IF propName = S_action \/ ActionRegex(propName)
  THEN "Serializable"
  ELSE IF propName = S_reset /\ ErrorFileRegex(file)
       THEN "Serializable"
       ELSE IF isFunctionType(propType)
            THEN "FunctionNotAction"
            ELSE IF isClassType(propType)
                 THEN "InvalidClass"
                 ELSE "Serializable"

\* The branch the loop body of validateComponentProps takes for one property.
Classify(propName, propType, file) ==
  IF isFunctionType(propType)
  THEN IF propName = S_action \/ ActionRegex(propName)
       THEN "Serializable"
       ELSE IF propName = S_reset /\ ErrorFileRegex(file)
            THEN "Serializable"
            ELSE "FunctionNotAction"
  ELSE IF isClassType(propType)
       THEN "InvalidClass"
       ELSE "Serializable"

\* a variant that puts the newest diagnostic first
reportInvalidProp_prepend(prop, i, messageId, rs) ==
  IF prop.valueDeclaration = "mapped"
  THEN <<[node |-> i, messageId |-> messageId, propName |-> prop.name]>> \o rs
  ELSE rs

\* reportInvalidProp: the diagnostics after reporting property i
reportInvalidProp(prop, i, messageId, rs) ==
  IF prop.valueDeclaration # "undefined"
  THEN IF prop.valueDeclaration = "mapped"
       THEN Append(rs, [node |-> i, messageId |-> messageId,
                        propName |-> prop.name])
       ELSE rs
  ELSE rs

(***************************************************************************)
(* Inputs: property names, file names and resolved types.                  *)
(***************************************************************************)
PropNames ==
  {S_action, S_Action, S_submitAction, S_submitaction, S_ACTION, S_Actions,
   S_onClick, S_reset, S_onReset}

CorePropNames == {S_submitAction, S_onClick, S_reset}

Dirs ==
  {<<>>,
   S_app \o <<"/">>,
   S_app \o <<"\\">>,
   S_app \o <<"/">> \o S_dash \o <<"/">>,
   S_app \o <<"/">> \o S_my,
   S_app \o <<"/">> \o S_error \o <<".">> \o S_ts \o <<"/">>}

BaseNames ==
  {S_error \o <<".">> \o S_ts,
   S_error \o <<".">> \o S_ts \o <<"x">>,
   S_global \o S_error \o <<".">> \o S_ts,
   S_global \o S_error \o <<".">> \o S_ts \o <<"x">>,
   S_error \o <<".">> \o <<"j","s","x">>,
   S_error \o <<".">> \o S_ts \o <<"x",".","b","a","k">>,
   S_error \o <<"x">> \o S_ts \o <<"x">>,
   <<"E">> \o Tail(S_error) \o <<".">> \o S_ts \o <<"x">>,
   S_comp \o <<".">> \o S_ts \o <<"x">>}

Filenames == {d \o b : d \in Dirs, b \in BaseNames}

F_appError  == S_app \o <<"/">> \o S_error \o <<".">> \o S_ts \o <<"x">>
F_appComp   == S_app \o <<"/">> \o S_comp \o <<".">> \o S_ts \o <<"x">>
F_bareError == S_error \o <<".">> \o S_ts \o <<"x">>

CoreFilenames == {F_appError, F_appComp, F_bareError}

\* Named shapes
T_Primitive   == ObjectType(<<>>, <<>>, NoSymbol, <<>>)
T_Function    == ObjectType(<<"sig">>, <<>>,
                            Symbol("__type", <<"FunctionType">>), <<>>)
T_MyClass     == ObjectType(<<>>, <<>>,
                            Symbol("MyClass", <<"ClassDeclaration">>), <<>>)
T_DateClass   == ObjectType(<<>>, <<>>,
                            Symbol("Date", <<"ClassDeclaration">>), <<>>)
T_Constructor == ObjectType(<<>>, <<"sig">>,
                            Symbol("__type", <<"ConstructorType">>), <<>>)
T_MapCtor     == ObjectType(<<>>, <<"sig">>,
                            Symbol("Map", <<"ClassDeclaration">>), <<>>)
T_Interface   == ObjectType(<<>>, <<>>,
                            Symbol("Props", <<"InterfaceDeclaration">>), <<>>)

NestLeaves == {T_Primitive, T_Function, T_MyClass}

CoreLeaves ==
  {T_Primitive, T_Function, T_MyClass, T_DateClass, T_Constructor, T_MapCtor,
   T_Interface}

\* Object literals, arrays and mappings with the types of their members
PlainMembers ==
  {<<>>} \cup {<<m>> : m \in CoreLeaves} \cup
  {<<m, n>> : m \in NestLeaves, n \in NestLeaves} \cup
  {<<ObjectType(<<>>, <<>>, Symbol("__type", <<"TypeLiteral">>), <<m>>)>> :
      m \in NestLeaves}

PlainSymbols ==
  {Symbol("__type", <<"TypeLiteral">>),
   Symbol("Array", <<"InterfaceDeclaration", "VariableDeclaration">>)}

PlainLeaves ==
  {ObjectType(<<>>, <<>>, sym, ms) : sym \in PlainSymbols, ms \in PlainMembers}

\* Every combination of what the compiler API can return for one type
SymbolNames == {"MyClass", "Date", "date"}

DeclarationLists ==
  {<<>>, <<"ClassDeclaration">>, <<"InterfaceDeclaration">>,
   <<"InterfaceDeclaration", "ClassDeclaration">>}

Symbols ==
  {NoSymbol} \cup
  {SymbolNoDeclarations(n) : n \in SymbolNames} \cup
  {Symbol(n, ds) : n \in SymbolNames, ds \in DeclarationLists}

SignatureLists == {<<>>, <<"sig">>}

AllLeaves ==
  {ObjectType(c, k, sym, <<>>) :
      c \in SignatureLists, k \in SignatureLists, sym \in Symbols}

\* Unions and intersections
SeqsUpTo(S, n) == UNION {[1..k -> S] : k \in 2..n}

Composites(branchLists) ==
  {UnionType(ts) : ts \in branchLists} \cup
  {IntersectionType(ts) : ts \in branchLists}

FlatComposites == Composites(SeqsUpTo(CoreLeaves, MaxBranches))

RECURSIVE Nested(_)
Nested(d) ==
  IF d <= 1
  THEN Composites([1..2 -> NestLeaves])
  ELSE Composites({<<l, c>> : l \in NestLeaves, c \in Nested(d - 1)} \cup
                  {<<c, l>> : l \in NestLeaves, c \in Nested(d - 1)})

NestedComposites == UNION {Nested(d) : d \in 2..MaxDepth}

CompositeTypes == FlatComposites \cup NestedComposites

Prop(n, t, vd) == [name |-> n, type |-> t, valueDeclaration |-> vd]

ValueDeclarations == {"mapped", "unmapped", "undefined"}

\* Nominal types by name: names of the list, and names that are close to one
NearMisses == {"date", "DateTime", "Err", "MyError", "", "MAP", "Files"}

NominalNames == SERIALIZABLE_BUILT_INS \cup NearMisses

\* an instance of a class declared in the program
UserClass(n) == ObjectType(<<>>, <<>>, Symbol(n, <<"ClassDeclaration">>), <<>>)

\* typeof of a class declared in the program
UserConstructor(n) ==
  ObjectType(<<>>, <<"sig">>, Symbol(n, <<"ClassDeclaration">>), <<>>)

\* a type the host library declares, as an interface and a variable
HostBuiltIn(n) ==
  ObjectType(<<>>, <<>>,
             Symbol(n, <<"InterfaceDeclaration", "VariableDeclaration">>), <<>>)

NominalTypes ==
  {UserClass(n) : n \in NominalNames} \cup
  {UserConstructor(n) : n \in NominalNames} \cup
  {HostBuiltIn(n) : n \in NominalNames}

\* Properties of props types that have several properties
P_onClick      == Prop(S_onClick, T_Function, "mapped")
P_submitAction == Prop(S_submitAction, T_Function, "mapped")
P_instance     == Prop(S_instance, T_MyClass, "mapped")
P_name         == Prop(S_name, T_Primitive, "mapped")
P_unmapped     == Prop(S_onReset, T_Function, "unmapped")
P_undeclared   == Prop(S_Actions, T_MyClass, "undefined")

SiblingProps ==
  {P_onClick, P_submitAction, P_instance, P_name, P_unmapped, P_undeclared}

PropLists == UNION {[1..k -> SiblingProps] : k \in 2..MaxProps}

(***************************************************************************)
(* One pass of validateComponentProps over the properties of a component.  *)
(***************************************************************************)
Init ==
  /\ \/ /\ filename \in Filenames
        /\ \E n \in PropNames, t \in CoreLeaves :
              properties = <<Prop(n, t, "mapped")>>
     \/ /\ filename \in CoreFilenames
        /\ \E n \in PropNames, t \in AllLeaves \cup PlainLeaves,
              vd \in ValueDeclarations :
              properties = <<Prop(n, t, vd)>>
     \/ /\ filename \in CoreFilenames
        /\ \E n \in CorePropNames, t \in CompositeTypes :
              properties = <<Prop(n, t, "mapped")>>
     \/ /\ filename \in CoreFilenames
        /\ properties \in PropLists
     \/ /\ filename = F_appComp
        /\ \E n \in {S_instance, S_submitAction}, t \in NominalTypes :
              properties = <<Prop(n, t, "mapped")>>
  /\ idx = 1
  /\ verdicts = <<>>
  /\ reports = <<>>
  /\ program = <<>>
  /\ phase = "body"
  /\ hasUseClientDirective = TRUE
  /\ cursor = 1
  /\ queue = <<>>
  /\ validated = <<>>
  /\ typeGraph = <<>>
  /\ callStack = <<>>
  /\ returned = "none"
  /\ callee = "none"

\* a variant of the loop that stops at the first property whose declaration
\* cannot be resolved
ValidateProp_breakOnUnresolved ==
  /\ idx <= Len(properties)
  /\ LET prop == properties[idx]
         verdict == Classify(prop.name, prop.type, filename)
     IN IF prop.valueDeclaration # "mapped"
        THEN /\ idx' = Len(properties) + 1
             /\ UNCHANGED <<verdicts, reports>>
        ELSE /\ verdicts' = Append(verdicts, verdict)
             /\ reports' =
                  IF verdict = "FunctionNotAction"
                  THEN reportInvalidProp(prop, idx, "functionNotServerAction",
                                         reports)
                  ELSE IF verdict = "InvalidClass"
                       THEN reportInvalidProp(prop, idx, "invalidProp", reports)
                       ELSE reports
             /\ idx' = idx + 1
  /\ UNCHANGED <<filename, properties>>
  /\ UNCHANGED lintVars
  /\ UNCHANGED traversalVars

\* a variant of the loop that remembers the fields it has classified and
\* lets a field it has seen before pass
ValidateProp_seenFields ==
  /\ idx <= Len(properties)
  /\ LET prop == properties[idx]
         verdict == IF \E j \in 1..(idx - 1) : properties[j] = prop
                    THEN "Serializable"
                    ELSE Classify(prop.name, prop.type, filename)
     IN /\ verdicts' = Append(verdicts, verdict)
        /\ reports' =
             IF verdict = "FunctionNotAction"
             THEN reportInvalidProp(prop, idx, "functionNotServerAction",
                                    reports)
             ELSE IF verdict = "InvalidClass"
                  THEN reportInvalidProp(prop, idx, "invalidProp", reports)
                  ELSE reports
  /\ idx' = idx + 1
  /\ UNCHANGED <<filename, properties>>
  /\ UNCHANGED lintVars
  /\ UNCHANGED traversalVars

\* One iteration of the loop over type.getProperties()
ValidateProp ==
  /\ idx <= Len(properties)
  /\ LET prop == properties[idx]
         verdict == Classify(prop.name, prop.type, filename)
     IN /\ verdicts' = Append(verdicts, verdict)
        /\ reports' =
             IF verdict = "FunctionNotAction"
             THEN reportInvalidProp(prop, idx, "functionNotServerAction",
                                    reports)
             ELSE IF verdict = "InvalidClass"
                  THEN reportInvalidProp(prop, idx, "invalidProp", reports)
                  ELSE reports
  /\ idx' = idx + 1
  /\ UNCHANGED <<filename, properties>>
  /\ UNCHANGED lintVars
  /\ UNCHANGED traversalVars

Next == ValidateProp

Spec == Init /\ [][Next]_vars

(***************************************************************************)
(* The syntax tree of a module, as the listeners of the rule read it.      *)
(***************************************************************************)
NullNode == [type |-> "null"]

\* a parameter of a function: its syntax, whether the parser services map it
\* to a compiler node, the properties of its type, and the local names an
\* object pattern binds them to (never read by the rule)
Param(t, mapped, props, bindings) ==
  [type |-> t, tsNode |-> mapped, props |-> props, bindings |-> bindings]

\* nodeId tells the function nodes of a module apart
FunctionNode(t, n, params) == [type |-> t, nodeId |-> n, params |-> params]

Directive(v) ==
  [type |-> "ExpressionStatement",
   expression |-> [type |-> "Literal", value |-> v]]

TemplateStatement ==
  [type |-> "ExpressionStatement", expression |-> [type |-> "TemplateLiteral"]]

ImportStatement == [type |-> "ImportDeclaration"]

Declarator(n, init) ==
  [id |-> [type |-> "Identifier", name |-> n], init |-> init]

VariableDeclaration(ds) ==
  [type |-> "VariableDeclaration", declarations |-> ds]

ExportSpecifier(n) ==
  [type |-> "ExportSpecifier", local |-> [type |-> "Identifier", name |-> n]]

ExportDefault(d) == [type |-> "ExportDefaultDeclaration", declaration |-> d]

ExportNamed(d, specs) ==
  [type |-> "ExportNamedDeclaration", declaration |-> d, specifiers |-> specs]

(***************************************************************************)
(* The listeners of the rule.                                              *)
(***************************************************************************)
\* /\.(test|spec)\.[jt]sx?$/.test(filename)
TestFileRegex(file) ==
  \E w \in {<<"t","e","s","t">>, <<"s","p","e","c">>},
     c \in {<<"j">>, <<"t">>}, x \in {<<>>, <<"x">>} :
    IsSuffix(<<".">> \o w \o <<".">> \o c \o <<"s">> \o x, file)

findVariableDeclaration(n, prog) ==
  LET Declares(k) ==
        {j \in DOMAIN prog[k].declarations :
            /\ prog[k].declarations[j].id.type = "Identifier"
            /\ prog[k].declarations[j].id.name = n}
      hits == {k \in DOMAIN prog :
                 prog[k].type = "VariableDeclaration" /\ Declares(k) # {}}
  IN IF hits = {}
     THEN NullNode
     ELSE LET k == CHOOSE h \in hits : \A m \in hits : h <= m
              j == CHOOSE d \in Declares(k) : \A m \in Declares(k) : d <= m
          IN prog[k].declarations[j]

\* a variant in which the flag is declared outside create and shared by
\* the lints of all files
create_sharedFlag ==
  /\ phase = "create"
  /\ IF TestFileRegex(filename)
     THEN phase' = "skipped"
     ELSE phase' = "Program"
  /\ UNCHANGED hasUseClientDirective
  /\ UNCHANGED traversalVars
  /\ UNCHANGED <<filename, properties, idx, verdicts, reports,
                 program, cursor, queue, validated>>

\* create(context), up to the return of the listeners
create ==
  /\ phase = "create"
  /\ IF TestFileRegex(filename)
     THEN /\ phase' = "skipped"
          /\ UNCHANGED hasUseClientDirective
     ELSE /\ phase' = "Program"
          /\ hasUseClientDirective' = FALSE
  /\ UNCHANGED traversalVars
  /\ UNCHANGED <<filename, properties, idx, verdicts, reports,
                 program, cursor, queue, validated>>

\* a variant that accepts the directive at any top-level statement
Program_anyStatement ==
  /\ phase = "Program"
  /\ hasUseClientDirective' =
       IF \E k \in 1..Len(program) :
            /\ program[k].type = "ExpressionStatement"
            /\ program[k].expression.type = "Literal"
            /\ program[k].expression.value = "use client"
       THEN TRUE
       ELSE hasUseClientDirective
  /\ phase' = "body"
  /\ cursor' = 1
  /\ UNCHANGED traversalVars
  /\ UNCHANGED <<filename, properties, idx, verdicts, reports,
                 program, queue, validated>>

\* Program(node)
Program ==
  /\ phase = "Program"
  /\ hasUseClientDirective' =
       IF Len(program) > 0
       THEN IF /\ program[1].type = "ExpressionStatement"
               /\ program[1].expression.type = "Literal"
               /\ program[1].expression.value = "use client"
            THEN TRUE
            ELSE hasUseClientDirective
       ELSE hasUseClientDirective
  /\ phase' = "body"
  /\ cursor' = 1
  /\ UNCHANGED traversalVars
  /\ UNCHANGED <<filename, properties, idx, verdicts, reports,
                 program, queue, validated>>

\* the traversal is at a top-level statement and no call of
\* validateComponentProps is pending or running
AtStatement ==
  /\ phase = "body"
  /\ cursor <= Len(program)
  /\ queue = <<>>
  /\ idx > Len(properties)

\* ExportDefaultDeclaration(node); queue' holds the calls of
\* validateComponentProps it makes
ExportDefaultDeclaration ==
  /\ AtStatement
  /\ program[cursor].type = "ExportDefaultDeclaration"
  /\ LET node == program[cursor]
         variable == findVariableDeclaration(node.declaration.name, program)
         functionNode ==
           IF node.declaration.type = "FunctionDeclaration"
           THEN node.declaration
           ELSE IF node.declaration.type = "Identifier"
                THEN IF /\ variable # NullNode
                        /\ variable.init # NullNode
                        /\ variable.init.type = "ArrowFunctionExpression"
                     THEN variable.init
                     ELSE NullNode
                ELSE IF node.declaration.type = "ArrowFunctionExpression"
                     THEN node.declaration
                     ELSE NullNode
     IN queue' = IF ~hasUseClientDirective
                 THEN <<>>
                 ELSE IF functionNode # NullNode
                      THEN <<functionNode>>
                      ELSE <<>>
  /\ cursor' = cursor + 1
  /\ UNCHANGED traversalVars
  /\ UNCHANGED <<filename, properties, idx, verdicts, reports,
                 program, phase, hasUseClientDirective, validated>>

\* ExportNamedDeclaration(node)
ExportNamedDeclaration ==
  /\ AtStatement
  /\ program[cursor].type = "ExportNamedDeclaration"
  /\ LET node == program[cursor]
         IsFunctionInit(d) ==
           /\ d.init # NullNode
           /\ d.init.type \in {"ArrowFunctionExpression", "FunctionExpression"}
         Inits(ds) == [j \in DOMAIN ds |-> ds[j].init]
         variables ==
           [j \in DOMAIN node.specifiers |->
              IF /\ node.specifiers[j].type = "ExportSpecifier"
                 /\ node.specifiers[j].local.type = "Identifier"
              THEN findVariableDeclaration(node.specifiers[j].local.name,
                                           program)
              ELSE NullNode]
     IN queue' =
          IF ~hasUseClientDirective
          THEN <<>>
          ELSE IF node.declaration.type = "FunctionDeclaration"
               THEN <<node.declaration>>
               ELSE IF node.declaration.type = "VariableDeclaration"
                    THEN Inits(SelectSeq(node.declaration.declarations,
                                         IsFunctionInit))
                    ELSE IF Len(node.specifiers) > 0
                         THEN Inits(SelectSeq(variables,
                                      LAMBDA v : v # NullNode
                                                  /\ IsFunctionInit(v)))
                         ELSE <<>>
  /\ cursor' = cursor + 1
  /\ UNCHANGED traversalVars
  /\ UNCHANGED <<filename, properties, idx, verdicts, reports,
                 program, phase, hasUseClientDirective, validated>>

\* a variant that validates the functions of every top-level statement
OtherStatement_validatesLocals ==
  /\ AtStatement
  /\ program[cursor].type \notin
       {"ExportDefaultDeclaration", "ExportNamedDeclaration"}
  /\ LET node == program[cursor]
         IsFunctionInit(d) ==
           /\ d.init # NullNode
           /\ d.init.type \in {"ArrowFunctionExpression", "FunctionExpression"}
         Inits(ds) == [j \in DOMAIN ds |-> ds[j].init]
     IN queue' =
          IF ~hasUseClientDirective
          THEN <<>>
          ELSE IF node.type = "FunctionDeclaration"
               THEN <<node>>
               ELSE IF node.type = "VariableDeclaration"
                    THEN Inits(SelectSeq(node.declarations, IsFunctionInit))
                    ELSE <<>>
  /\ cursor' = cursor + 1
  /\ UNCHANGED traversalVars
  /\ UNCHANGED <<filename, properties, idx, verdicts, reports,
                 program, phase, hasUseClientDirective, validated>>

\* a statement no listener is registered for
OtherStatement ==
  /\ AtStatement
  /\ program[cursor].type \notin
       {"ExportDefaultDeclaration", "ExportNamedDeclaration"}
  /\ cursor' = cursor + 1
  /\ UNCHANGED traversalVars
  /\ UNCHANGED <<filename, properties, idx, verdicts, reports,
                 program, phase, hasUseClientDirective, queue, validated>>

\* a variant without the guard on the compiler node of the parameter
validateComponentProps_noTsNodeGuard ==
  /\ phase = "body"
  /\ queue # <<>>
  /\ idx > Len(properties)
  /\ LET functionNode == Head(queue)
         propsParam == functionNode.params[1]
         returns ==
           IF Len(functionNode.params) = 0
           THEN TRUE
           ELSE propsParam.type # "Identifier"
                  /\ propsParam.type # "ObjectPattern"
     IN /\ validated' =
             Append(validated, [fn |-> functionNode.nodeId,
                                node |-> functionNode,
                                first |-> Len(reports) + 1,
                                loop |-> ~returns])
        /\ IF returns
           THEN UNCHANGED <<properties, idx, verdicts>>
           ELSE /\ properties' = propsParam.props
                /\ idx' = 1
                /\ verdicts' = <<>>
  /\ queue' = Tail(queue)
  /\ UNCHANGED traversalVars
  /\ UNCHANGED <<filename, reports, program, phase, hasUseClientDirective,
                 cursor>>

\* a variant that names the properties of an object pattern by the local
\* names the pattern binds
validateComponentProps_bindingNames ==
  /\ phase = "body"
  /\ queue # <<>>
  /\ idx > Len(properties)
  /\ LET functionNode == Head(queue)
         propsParam == functionNode.params[1]
         returns ==
           IF Len(functionNode.params) = 0
           THEN TRUE
           ELSE IF propsParam.type # "Identifier"
                   /\ propsParam.type # "ObjectPattern"
                THEN TRUE
                ELSE ~propsParam.tsNode
     IN /\ validated' =
             Append(validated, [fn |-> functionNode.nodeId,
                                node |-> functionNode,
                                first |-> Len(reports) + 1,
                                loop |-> ~returns])
        /\ IF returns
           THEN UNCHANGED <<properties, idx, verdicts>>
           ELSE /\ properties' =
                     IF propsParam.type = "ObjectPattern"
                     THEN [i \in DOMAIN propsParam.props |->
                             [propsParam.props[i] EXCEPT
                                !.name = propsParam.bindings[i]]]
                     ELSE propsParam.props
                /\ idx' = 1
                /\ verdicts' = <<>>
  /\ queue' = Tail(queue)
  /\ UNCHANGED traversalVars
  /\ UNCHANGED <<filename, reports, program, phase, hasUseClientDirective,
                 cursor>>

\* a variant that takes the props from the last parameter
validateComponentProps_lastParam ==
  /\ phase = "body"
  /\ queue # <<>>
  /\ idx > Len(properties)
  /\ LET functionNode == Head(queue)
         propsParam == functionNode.params[Len(functionNode.params)]
         returns ==
           IF Len(functionNode.params) = 0
           THEN TRUE
           ELSE IF propsParam.type # "Identifier"
                   /\ propsParam.type # "ObjectPattern"
                THEN TRUE
                ELSE ~propsParam.tsNode
     IN /\ validated' =
             Append(validated, [fn |-> functionNode.nodeId,
                                node |-> functionNode,
                                first |-> Len(reports) + 1,
                                loop |-> ~returns])
        /\ IF returns
           THEN UNCHANGED <<properties, idx, verdicts>>
           ELSE /\ properties' = propsParam.props
                /\ idx' = 1
                /\ verdicts' = <<>>
  /\ queue' = Tail(queue)
  /\ UNCHANGED traversalVars
  /\ UNCHANGED <<filename, reports, program, phase, hasUseClientDirective,
                 cursor>>

\* validateComponentProps(functionNode, context, filename), up to its loop
validateComponentProps ==
  /\ phase = "body"
  /\ queue # <<>>
  /\ idx > Len(properties)
  /\ LET functionNode == Head(queue)
         propsParam == functionNode.params[1]
         returns ==
           IF Len(functionNode.params) = 0
           THEN TRUE
           ELSE IF propsParam.type # "Identifier"
                   /\ propsParam.type # "ObjectPattern"
                THEN TRUE
                ELSE ~propsParam.tsNode
     IN /\ validated' =
             Append(validated, [fn |-> functionNode.nodeId,
                                node |-> functionNode,
                                first |-> Len(reports) + 1,
                                loop |-> ~returns])
        /\ IF returns
           THEN UNCHANGED <<properties, idx, verdicts>>
           ELSE /\ properties' = propsParam.props
                /\ idx' = 1
                /\ verdicts' = <<>>
  /\ queue' = Tail(queue)
  /\ UNCHANGED traversalVars
  /\ UNCHANGED <<filename, reports, program, phase, hasUseClientDirective,
                 cursor>>

(***************************************************************************)
(* Modules.  A module is an optional prologue, at most one local           *)
(* declaration of the name C, and export statements.  The function bound   *)
(* to C has node 1, the function written in the k-th export statement has  *)
(* node k + 1.                                                             *)
(***************************************************************************)
S_tsx == <<".">> \o S_ts \o <<"x">>

F_comp       == S_comp \o S_tsx
F_test       == S_comp \o <<".","t","e","s","t">> \o S_tsx
F_spec       == S_comp \o <<".","s","p","e","c",".">> \o S_ts
F_testJs     == S_comp \o <<".","t","e","s","t",".","j","s">>
F_testHelper == S_comp \o <<".","t","e","s","t",".","h","e","l","p","e","r",".">>
                  \o S_ts
F_specMts    == S_comp \o <<".","s","p","e","c",".","m">> \o S_ts
F_testNoDot  == <<"t","e","s","t">> \o S_tsx
F_testxtsx   == S_comp \o <<".","t","e","s","t","x">> \o S_ts \o <<"x">>
F_testDir    == S_app \o <<"/">> \o F_test

LintFilenames ==
  {F_comp, F_test, F_spec, F_testJs, F_testHelper, F_specMts, F_testNoDot,
   F_testxtsx, F_testDir, F_appError}

Prologues ==
  {<<>>,
   <<Directive("use client")>>,
   <<Directive("use strict")>>,
   <<Directive("use client ")>>,
   <<TemplateStatement>>,
   <<ImportStatement, Directive("use client")>>,
   <<Directive("use strict"), Directive("use client")>>}

UseClient == <<Directive("use client")>>

P_noDeclarations ==
  Prop(S_name, ObjectType(<<>>, <<>>, SymbolNoDeclarations("MyClass"), <<>>),
       "mapped")

PL_bad       == <<P_onClick, P_instance>>
PL_good      == <<P_name, P_submitAction>>
\* a constructor type without symbol
P_noSymbol ==
  Prop(S_instance, ObjectType(<<>>, <<"sig">>, NoSymbol, <<>>), "mapped")

PL_malformed == <<P_undeclared, P_noDeclarations, P_noSymbol, P_onClick>>

Pm_none          == <<>>
Pm_id(props)     == <<Param("Identifier", TRUE, props, <<>>)>>
Pm_obj(props, b) == <<Param("ObjectPattern", TRUE, props, b)>>
Pm_default(props) == <<Param("AssignmentPattern", TRUE, props, <<>>)>>
Pm_unmapped(props) == <<Param("Identifier", FALSE, props, <<>>)>>
Pm_two(p1, p2) ==
  <<Param("Identifier", TRUE, p1, <<>>), Param("Identifier", TRUE, p2, <<>>)>>

\* the parameters of the function bound to C and of the functions written
\* in the export statements
ParamPairs ==
  {<<Pm_id(PL_bad), y>> :
      y \in {Pm_id(PL_bad), Pm_obj(PL_bad, <<S_submitAction, S_name>>),
             Pm_id(PL_good), Pm_none, Pm_default(PL_bad),
             Pm_unmapped(PL_bad), Pm_two(PL_good, PL_bad),
             Pm_id(PL_malformed)}} \cup
  {<<x, Pm_id(PL_bad)>> :
      x \in {Pm_obj(PL_bad, <<S_submitAction, S_name>>), Pm_id(PL_good),
             Pm_none}} \cup
  {<<Pm_unmapped(PL_bad), Pm_id(PL_malformed)>>,
   <<Pm_two(PL_good, PL_bad), Pm_default(PL_bad)>>}

LocalForms ==
  {"const arrow", "const function expression", "function declaration",
   "const call"}

ExportForms ==
  {"default function", "default arrow", "default function expression",
   "default identifier", "export function", "export const arrow",
   "export const function expression", "export const call",
   "export specifier", "export unknown specifier"}

LocalStatement(form, params) ==
  IF form = "const arrow"
  THEN VariableDeclaration(
         <<Declarator("C", FunctionNode("ArrowFunctionExpression", 1, params))>>)
  ELSE IF form = "const function expression"
  THEN VariableDeclaration(
         <<Declarator("C", FunctionNode("FunctionExpression", 1, params))>>)
  ELSE IF form = "function declaration"
  THEN [type |-> "FunctionDeclaration", nodeId |-> 1, params |-> params,
        id |-> [type |-> "Identifier", name |-> "C"]]
  ELSE VariableDeclaration(
         <<Declarator("C", [type |-> "CallExpression"])>>)

ExportStatement(form, n, params) ==
  IF form = "default function"
  THEN ExportDefault(FunctionNode("FunctionDeclaration", n, params))
  ELSE IF form = "default arrow"
  THEN ExportDefault(FunctionNode("ArrowFunctionExpression", n, params))
  ELSE IF form = "default function expression"
  THEN ExportDefault(FunctionNode("FunctionExpression", n, params))
  ELSE IF form = "default identifier"
  THEN ExportDefault([type |-> "Identifier", name |-> "C"])
  ELSE IF form = "export function"
  THEN ExportNamed(FunctionNode("FunctionDeclaration", n, params), <<>>)
  ELSE IF form = "export const arrow"
  THEN ExportNamed(
         VariableDeclaration(
           <<Declarator("A", NullNode),
             Declarator("D", FunctionNode("ArrowFunctionExpression", n,
                                          params))>>), <<>>)
  ELSE IF form = "export const function expression"
  THEN ExportNamed(
         VariableDeclaration(
           <<Declarator("D", FunctionNode("FunctionExpression", n, params))>>),
         <<>>)
  ELSE IF form = "export const call"
  THEN ExportNamed(
         VariableDeclaration(<<Declarator("D", [type |-> "CallExpression"])>>),
         <<>>)
  ELSE IF form = "export specifier"
  THEN ExportNamed(NullNode, <<ExportSpecifier("C")>>)
  ELSE ExportNamed(NullNode, <<ExportSpecifier("E"), ExportSpecifier("C")>>)

ExportStatements(forms, params) ==
  [k \in DOMAIN forms |-> ExportStatement(forms[k], k + 1, params)]

DefaultForms ==
  {"default function", "default arrow", "default function expression",
   "default identifier"}

\* a module has at most one default export
ExportFormLists ==
  {fs \in UNION {[1..k -> ExportForms] : k \in 1..MaxExports} :
      Cardinality({k \in DOMAIN fs : fs[k] \in DefaultForms}) <= 1}

\* bodies: the local declaration, if any, before or after the exports
Bodies(pair) ==
  {ExportStatements(fs, pair[2]) : fs \in ExportFormLists} \cup
  {<<LocalStatement(l, pair[1])>> \o ExportStatements(fs, pair[2]) :
      l \in LocalForms, fs \in ExportFormLists} \cup
  {ExportStatements(fs, pair[2]) \o <<LocalStatement("const arrow", pair[1])>> :
      fs \in ExportFormLists} \cup
  {<<LocalStatement(l, pair[1])>> : l \in LocalForms}

SimpleBodies ==
  {<<LocalStatement("const arrow", Pm_id(PL_bad)),
     ExportStatement(f, 2, Pm_id(PL_bad))>> : f \in ExportForms}

(***************************************************************************)
(* One lint of a file: create, the visit of Program, the visits of the     *)
(* top-level statements in order, and for every export the calls of        *)
(* validateComponentProps it makes.                                        *)
(***************************************************************************)
LintInit ==
  /\ \/ /\ filename \in LintFilenames
        /\ \E pro \in Prologues, b \in SimpleBodies : program = pro \o b
     \/ /\ filename = F_comp
        /\ \E pair \in ParamPairs : \E b \in Bodies(pair) :
              program = UseClient \o b
  /\ phase = "create"
  /\ hasUseClientDirective = FALSE
  /\ cursor = 0
  /\ queue = <<>>
  /\ validated = <<>>
  /\ typeGraph = <<>>
  /\ callStack = <<>>
  /\ returned = "none"
  /\ callee = "none"
  /\ properties = <<>>
  /\ idx = 1
  /\ verdicts = <<>>
  /\ reports = <<>>

LintNext ==
  \/ create
  \/ Program
  \/ ExportDefaultDeclaration
  \/ ExportNamedDeclaration
  \/ OtherStatement
  \/ validateComponentProps
  \/ ValidateProp

LintSpec == LintInit /\ [][LintNext]_vars

(***************************************************************************)
(* A run of the linter over several files: comp.tsx first, then any        *)
(* number of times app/comp.tsx with some text.  ESLint calls create anew  *)
(* for every file; the flag of the lint before is out of reach, and the    *)
(* value it left is kept here until create declares the new one.           *)
(***************************************************************************)
SessionModules == {pro \o b : pro \in Prologues, b \in SimpleBodies}

SessionInit ==
  /\ filename = F_comp
  /\ program \in SessionModules
  /\ phase = "create"
  /\ hasUseClientDirective = FALSE
  /\ cursor = 0
  /\ queue = <<>>
  /\ validated = <<>>
  /\ properties = <<>>
  /\ idx = 1
  /\ verdicts = <<>>
  /\ reports = <<>>
  /\ typeGraph = <<>>
  /\ callStack = <<>>
  /\ returned = "none"
  /\ callee = "none"

\* the lint of one file is over and ESLint goes on to the next file
NextFile ==
  /\ phase = "body"
  /\ cursor > Len(program)
  /\ queue = <<>>
  /\ idx > Len(properties)
  /\ filename' = F_appComp
  /\ program' \in SessionModules
  /\ phase' = "create"
  /\ cursor' = 0
  /\ validated' = <<>>
  /\ properties' = <<>>
  /\ idx' = 1
  /\ verdicts' = <<>>
  /\ reports' = <<>>
  /\ UNCHANGED <<hasUseClientDirective, queue>>
  /\ UNCHANGED traversalVars

SessionNext ==
  \/ create
  \/ Program
  \/ ExportDefaultDeclaration
  \/ ExportNamedDeclaration
  \/ OtherStatement
  \/ validateComponentProps
  \/ ValidateProp
  \/ NextFile

SessionSpec == SessionInit /\ [][SessionNext]_vars

(***************************************************************************)
(* The recursion of isFunctionType and isClassType, one frame at a time.   *)
(* A type graph gives every type object a number; the types of a union or  *)
(* intersection are numbers of the graph, so that an object can be its     *)
(* own constituent.  A frame is a call on a type and the constituent that  *)
(* types.some(...) is at (0 before the own signatures have been tested).   *)
(* The engine throws a RangeError when the stack is full.                  *)
(***************************************************************************)
TypeIds == 1..MaxNodes

GraphLeaves == {T_Primitive, T_Function, T_MyClass}

GraphComposite(flag, ids) ==
  [flags |-> flag, callSignatures |-> <<>>, constructSignatures |-> <<>>,
   symbol |-> NoSymbol, types |-> ids, members |-> <<>>]

GraphComposites ==
  {GraphComposite(flag, ids) :
      flag \in {"Union", "Intersection"}, ids \in [1..2 -> TypeIds]}

\* the call starts at type 1, a union or an intersection
TypeGraphs ==
  {g \in [TypeIds -> GraphLeaves \cup GraphComposites] :
      g[1] \in GraphComposites}

\* the tests that isFunctionType and isClassType make before they recurse:
\* "true", "false", or "recurse" into type.types
OwnAnswer(fn, type) ==
  IF fn = "isFunctionType"
  THEN IF Len(type.callSignatures) > 0
       THEN "true"
       ELSE IF isUnion(type) \/ isIntersection(type)
            THEN "recurse" ELSE "false"
  ELSE IF Len(type.constructSignatures) > 0
       THEN IF isSerializableBuiltIn(type) THEN "false" ELSE "true"
       ELSE IF HasClassDeclaration(type)
            THEN IF isSerializableBuiltIn(type) THEN "false" ELSE "true"
            ELSE IF isUnion(type) \/ isIntersection(type)
                 THEN "recurse" ELSE "false"

Frame(n, b) == [node |-> n, branch |-> b]

Top == callStack[Len(callStack)]

Pop == SubSeq(callStack, 1, Len(callStack) - 1)

\* the top frame moves to constituent b and calls the function on it
Descend(b) ==
  Append(Append(Pop, Frame(Top.node, b)),
         Frame(typeGraph[Top.node].types[b], 0))

TraversalInit ==
  /\ typeGraph \in TypeGraphs
  /\ callee \in {"isFunctionType", "isClassType"}
  /\ callStack = <<Frame(1, 0)>>
  /\ returned = "none"
  /\ filename = <<>>
  /\ properties = <<>>
  /\ idx = 1
  /\ verdicts = <<>>
  /\ reports = <<>>
  /\ program = <<>>
  /\ phase = "skipped"
  /\ hasUseClientDirective = FALSE
  /\ cursor = 0
  /\ queue = <<>>
  /\ validated = <<>>

\* the body of the function up to its first recursive call
EnterType ==
  /\ callStack # <<>>
  /\ Top.branch = 0
  /\ LET answer == OwnAnswer(callee, typeGraph[Top.node])
     IN IF answer = "recurse" /\ typeGraph[Top.node].types # <<>>
        THEN /\ Len(callStack) < MaxStack
             /\ callStack' = Descend(1)
             /\ returned' = "none"
        ELSE /\ callStack' = Pop
             /\ returned' = IF answer = "true" THEN "true" ELSE "false"
  /\ UNCHANGED <<typeGraph, callee>>
  /\ UNCHANGED <<filename, properties, idx, verdicts, reports>>
  /\ UNCHANGED lintVars

\* types.some(...) after a recursive call has returned
ResumeSome ==
  /\ callStack # <<>>
  /\ Top.branch > 0
  /\ returned \in {"true", "false"}
  /\ IF returned = "true"
     THEN /\ callStack' = Pop
          /\ returned' = "true"
     ELSE IF Top.branch < Len(typeGraph[Top.node].types)
          THEN /\ callStack' = Descend(Top.branch + 1)
               /\ returned' = "none"
          ELSE /\ callStack' = Pop
               /\ returned' = "false"
  /\ UNCHANGED <<typeGraph, callee>>
  /\ UNCHANGED <<filename, properties, idx, verdicts, reports>>
  /\ UNCHANGED lintVars

\* a recursive call with a full stack
StackOverflow ==
  /\ callStack # <<>>
  /\ Top.branch = 0
  /\ Len(callStack) = MaxStack
  /\ OwnAnswer(callee, typeGraph[Top.node]) = "recurse"
  /\ typeGraph[Top.node].types # <<>>
  /\ callStack' = <<>>
  /\ returned' = "RangeError"
  /\ UNCHANGED <<typeGraph, callee>>
  /\ UNCHANGED <<filename, properties, idx, verdicts, reports>>
  /\ UNCHANGED lintVars

TraversalNext == EnterType \/ ResumeSome \/ StackOverflow

TraversalSpec == TraversalInit /\ [][TraversalNext]_vars

TypeOK ==
  /\ idx \in 1..(Len(properties) + 1)
  /\ Len(verdicts) = idx - 1
  /\ Len(reports) <= Len(verdicts)

(***************************************************************************)
(* Vocabulary of the properties.                                           *)
(***************************************************************************)
Done == 1..Len(verdicts)

ReportsFor(i) == {k \in 1..Len(reports) : reports[k].node = i}

Separators == {"/", "\\"}

HasSeparator(file) == \E k \in 1..Len(file) : file[k] \in Separators

\* the part of the path after its last separator (the whole path if none)
FinalSegment(file) ==
  LET seps == {k \in 1..Len(file) : file[k] \in Separators}
  IN IF seps = {}
     THEN file
     ELSE SubSeq(file, (CHOOSE k \in seps : \A m \in seps : m <= k) + 1,
                 Len(file))

ErrorFileNames ==
  {S_error \o <<".">> \o S_ts,
   S_error \o <<".">> \o S_ts \o <<"x">>,
   S_global \o S_error \o <<".">> \o S_ts,
   S_global \o S_error \o <<".">> \o S_ts \o <<"x">>}

HasCallSignature(t) == t.callSignatures # <<>>

ActionName(n) == n = S_action \/ IsSuffix(S_Action, n)

ResetInErrorFile(n, file) ==
  n = S_reset /\ FinalSegment(file) \in ErrorFileNames

\* class instance or constructor shape
ClassShaped(t) ==
  \/ t.constructSignatures # <<>>
  \/ /\ t.symbol.defined
     /\ t.symbol.hasDeclarations
     /\ "ClassDeclaration" \in
          {t.symbol.declarations[j] : j \in DOMAIN t.symbol.declarations}

Allowlisted(t) ==
  t.symbol.defined /\ t.symbol.name \in SERIALIZABLE_BUILT_INS

RECURSIVE AnyCallable(_)
AnyCallable(t) ==
  \/ HasCallSignature(t)
  \/ \E j \in DOMAIN t.types : AnyCallable(t.types[j])

RECURSIVE AnyClassShaped(_)
AnyClassShaped(t) ==
  \/ ClassShaped(t)
  \/ \E j \in DOMAIN t.types : AnyClassShaped(t.types[j])

\* verdict of the first branch of ts that satisfies Sel, classified alone
FirstVerdict(n, ts, file, Sel(_)) ==
  LET hits == {j \in DOMAIN ts : Sel(ts[j])}
  IN IF hits = {}
     THEN "Serializable"
     ELSE Classify(n, ts[CHOOSE j \in hits : \A m \in hits : j <= m], file)

Disqualifies(n, t, file) == Classify(n, t, file) # "Serializable"

\* the name, in this file, takes a function out of the function rule
ExemptName(n, file) ==
  \/ ActionName(n)
  \/ /\ n = S_reset
     /\ HasSeparator(file)
     /\ FinalSegment(file) \in ErrorFileNames

\* the union or intersection t with its constituents in reverse order
Reversed(t) ==
  LET ts == [j \in DOMAIN t.types |-> t.types[Len(t.types) + 1 - j]]
  IN IF isUnion(t) THEN UnionType(ts) ELSE IntersectionType(ts)

\* character for character the same string
SameString(a, b) ==
  /\ Len(a) = Len(b)
  /\ \A k \in 1..Len(a) : SubSeq(a, k, k) = SubSeq(b, k, k)

\* the names the allowlist has to hold at least
RequiredBuiltIns ==
  {"Date", "Map", "Set", "Promise", "RegExp",
   "Error", "EvalError", "RangeError", "ReferenceError", "SyntaxError",
   "TypeError", "URIError",
   "ArrayBuffer", "Int8Array", "Uint8Array", "Uint8ClampedArray",
   "Int16Array", "Uint16Array", "Int32Array", "Uint32Array", "Float32Array",
   "Float64Array", "BigInt64Array", "BigUint64Array",
   "Blob", "File", "Array", "Object"}

\* the traversal of the module is over
Finished ==
  /\ phase = "body"
  /\ cursor > Len(program)
  /\ queue = <<>>
  /\ idx > Len(properties)

\* the first top-level statement is the literal directive 'use client'
FirstIsUseClient ==
  /\ program # <<>>
  /\ program[1] = Directive("use client")

\* the file name has a ".test." or a ".spec." segment
ContainsTestSegment(file) ==
  \E k \in 1..Len(file) :
    /\ k + 5 <= Len(file)
    /\ SubSeq(file, k, k + 5) \in
         {<<".","t","e","s","t",".">>, <<".","s","p","e","c",".">>}

\* the diagnostics reported by the k-th call of validateComponentProps
DiagnosticsOf(k) ==
  SubSeq(reports, validated[k].first,
         IF k < Len(validated) THEN validated[k + 1].first - 1
                               ELSE Len(reports))

\* the k-th call of validateComponentProps has returned
Completed(k) == k < Len(validated) \/ idx > Len(properties)

FunctionForms ==
  {"FunctionDeclaration", "ArrowFunctionExpression", "FunctionExpression"}

\* the numbers of the top-level functions that the name n is bound to
FunctionsNamed(n, prog) ==
  {prog[k].nodeId :
     k \in {h \in DOMAIN prog : /\ prog[h].type = "FunctionDeclaration"
                                 /\ prog[h].id.name = n}} \cup
  UNION {{prog[k].declarations[j].init.nodeId :
            j \in {i \in DOMAIN prog[k].declarations :
                     /\ prog[k].declarations[i].id.name = n
                     /\ prog[k].declarations[i].init.type \in FunctionForms}} :
         k \in {h \in DOMAIN prog : prog[h].type = "VariableDeclaration"}}

\* the numbers of the functions that an export statement exports: a
\* function declaration or arrow function written in the statement, a
\* function bound by export const, or the function an exported identifier
\* refers to
ExportedBy(node, prog) ==
  IF node.type = "ExportDefaultDeclaration"
  THEN IF node.declaration.type \in
            {"FunctionDeclaration", "ArrowFunctionExpression"}
       THEN {node.declaration.nodeId}
       ELSE IF node.declaration.type = "Identifier"
            THEN FunctionsNamed(node.declaration.name, prog)
            ELSE {}
  ELSE IF node.type = "ExportNamedDeclaration"
  THEN IF node.declaration.type = "FunctionDeclaration"
       THEN {node.declaration.nodeId}
       ELSE IF node.declaration.type = "VariableDeclaration"
            THEN {node.declaration.declarations[j].init.nodeId :
                    j \in {i \in DOMAIN node.declaration.declarations :
                             node.declaration.declarations[i].init.type
                               \in FunctionForms}}
            ELSE UNION {FunctionsNamed(node.specifiers[j].local.name, prog) :
                          j \in DOMAIN node.specifiers}
  ELSE {}

ExportedComponents(prog) ==
  UNION {ExportedBy(prog[k], prog) : k \in DOMAIN prog}

ValidatedComponents == {validated[k].fn : k \in 1..Len(validated)}

\* the diagnostics of the properties props[i], props[i + 1], ... in order
RECURSIVE DiagnosticsFrom(_, _, _)
DiagnosticsFrom(props, i, file) ==
  IF i > Len(props)
  THEN <<>>
  ELSE LET verdict == Classify(props[i].name, props[i].type, file)
           own == IF /\ verdict # "Serializable"
                     /\ props[i].valueDeclaration = "mapped"
                  THEN <<[node |-> i,
                          messageId |-> IF verdict = "FunctionNotAction"
                                        THEN "functionNotServerAction"
                                        ELSE "invalidProp",
                          propName |-> props[i].name]>>
                  ELSE <<>>
       IN own \o DiagnosticsFrom(props, i + 1, file)

\* the diagnostics of a component taken by itself
ComponentDiagnostics(node, file) ==
  IF node.params = <<>>
  THEN <<>>
  ELSE IF \/ node.params[1].type \notin {"Identifier", "ObjectPattern"}
          \/ ~node.params[1].tsNode
       THEN <<>>
       ELSE DiagnosticsFrom(node.params[1].props, 1, file)

\* the type has no symbol, or its symbol has no declarations
NoResolvableDeclaration(t) == ~t.symbol.defined \/ ~t.symbol.hasDeclarations

(***************************************************************************)
(* C1: a field with a call signature whose name is "action" or ends with   *)
(* "Action" is Serializable and gets no diagnostic, whatever the file.     *)
(***************************************************************************)
C1_ActionNameSerializable ==
  \A i \in Done :
    (HasCallSignature(properties[i].type) /\ ActionName(properties[i].name))
      => (verdicts[i] = "Serializable" /\ ReportsFor(i) = {})

C1_Witness ==
  \E i \in Done :
    /\ HasCallSignature(properties[i].type)
    /\ properties[i].name = S_submitAction
    /\ verdicts[i] = "Serializable"

(***************************************************************************)
(* C2: a function-shaped field whose name is neither "action" nor ends     *)
(* with "Action", and which is not "reset" in an error-boundary file, is   *)
(* FunctionNotAction.                                                      *)
(***************************************************************************)
C2_OtherFunctionsRejected ==
  \A i \in Done :
    ( /\ AnyCallable(properties[i].type)
      /\ ~ActionName(properties[i].name)
      /\ ~ResetInErrorFile(properties[i].name, filename) )
      => verdicts[i] = "FunctionNotAction"

C2_Witness ==
  \E i \in Done :
    /\ HasCallSignature(properties[i].type)
    /\ properties[i].name \in {S_submitaction, S_ACTION, S_Actions}
    /\ verdicts[i] = "FunctionNotAction"

(***************************************************************************)
(* C3: for a function-shaped field named "reset" and a path that contains  *)
(* a separator, the verdict is Serializable iff the final path segment is  *)
(* error.ts, error.tsx, global-error.ts or global-error.tsx; otherwise it  *)
(* is FunctionNotAction.                                                   *)
(***************************************************************************)
C3_ResetInErrorFile ==
  \A i \in Done :
    ( /\ HasCallSignature(properties[i].type)
      /\ properties[i].name = S_reset
      /\ HasSeparator(filename) )
      => /\ verdicts[i] = "Serializable"
              <=> FinalSegment(filename) \in ErrorFileNames
         /\ verdicts[i] = "FunctionNotAction"
              <=> FinalSegment(filename) \notin ErrorFileNames

C3_Witness ==
  \E i \in Done :
    /\ HasCallSignature(properties[i].type)
    /\ properties[i].name = S_reset
    /\ HasSeparator(filename)
    /\ FinalSegment(filename) = S_global \o S_error \o <<".">> \o S_ts
    /\ Len(filename) > Len(FinalSegment(filename)) + 4
    /\ verdicts[i] = "Serializable"

(***************************************************************************)
(* C4 as stated: "reset" is exempt when the path is the bare file name     *)
(* error.ts(x) or global-error.ts(x), with no directory.                   *)
(***************************************************************************)
C4_BareErrorFileExempt ==
  \A i \in Done :
    ( /\ HasCallSignature(properties[i].type)
      /\ properties[i].name = S_reset
      /\ filename \in ErrorFileNames )
      => verdicts[i] = "Serializable"

(***************************************************************************)
(* C4 amended: a separator must precede the file name; for the bare file   *)
(* name error.ts(x) or global-error.ts(x) a function-shaped "reset" is     *)
(* FunctionNotAction.                                                      *)
(***************************************************************************)
C4_BareErrorFileRejected ==
  \A i \in Done :
    ( /\ HasCallSignature(properties[i].type)
      /\ properties[i].name = S_reset
      /\ filename \in ErrorFileNames )
      => verdicts[i] = "FunctionNotAction"

C4_Witness ==
  \E i \in Done :
    /\ HasCallSignature(properties[i].type)
    /\ properties[i].name = S_reset
    /\ filename = F_bareError
    /\ verdicts[i] = "FunctionNotAction"

(***************************************************************************)
(* C5: a class instance or constructor type without call signature is      *)
(* InvalidClass when its name is not in the allowlist and Serializable     *)
(* when it is, whatever the field name and the file.                       *)
(***************************************************************************)
C5_ClassByAllowlist ==
  \A i \in Done :
    ( /\ properties[i].type.flags = "Object"
      /\ ClassShaped(properties[i].type)
      /\ ~HasCallSignature(properties[i].type) )
      => verdicts[i] =
           IF Allowlisted(properties[i].type)
           THEN "Serializable" ELSE "InvalidClass"

C5_Witness ==
  \E i \in Done :
    /\ properties[i].type = T_DateClass
    /\ properties[i].name = S_reset
    /\ filename = F_appError
    /\ verdicts[i] = "Serializable"

(***************************************************************************)
(* C6 as stated: the verdict of a union is the verdict of its first branch *)
(* in declared order that is not Serializable when classified alone, and   *)
(* Serializable if there is none.                                          *)
(***************************************************************************)
C6_UnionFirstDisqualifying ==
  \A i \in Done :
    isUnion(properties[i].type)
      => verdicts[i] =
           FirstVerdict(properties[i].name, properties[i].type.types,
                        filename,
                        LAMBDA b : Disqualifies(properties[i].name, b,
                                                filename))

(***************************************************************************)
(* C6 amended: if some branch of the union is callable, the verdict is     *)
(* that of the first callable branch classified alone, whatever the other  *)
(* branches are; otherwise a union whose branches are all constructible is *)
(* InvalidClass, and any other union has the verdict of its first branch   *)
(* that is not Serializable alone, or Serializable if there is none.       *)
(***************************************************************************)
C6_UnionFunctionRuleFirst ==
  \A i \in Done :
    isUnion(properties[i].type)
      => verdicts[i] =
           IF \E j \in DOMAIN properties[i].type.types :
                 AnyCallable(properties[i].type.types[j])
           THEN FirstVerdict(properties[i].name, properties[i].type.types,
                             filename, AnyCallable)
           ELSE IF properties[i].type.constructSignatures # <<>>
                THEN "InvalidClass"
                ELSE FirstVerdict(properties[i].name,
                                  properties[i].type.types, filename,
                                  LAMBDA b : Disqualifies(properties[i].name,
                                                          b, filename))

C6_Witness ==
  \E i \in Done :
    /\ properties[i].type = UnionType(<<T_MyClass, T_Function>>)
    /\ properties[i].name = S_onClick
    /\ verdicts[i] = "FunctionNotAction"

(***************************************************************************)
(* C7 as stated: for an intersection, a callable branch puts the field     *)
(* under the function rule, a branch that is a non-allowlisted class or    *)
(* constructor makes the field InvalidClass, and the intersection is       *)
(* Serializable only if no branch disqualifies.                            *)
(***************************************************************************)
C7_IntersectionAnyBranch ==
  \A i \in Done :
    isIntersection(properties[i].type)
      => /\ (\E j \in DOMAIN properties[i].type.types :
               AnyCallable(properties[i].type.types[j]))
              => verdicts[i] =
                   FirstVerdict(properties[i].name, properties[i].type.types,
                                filename, AnyCallable)
         /\ (\E j \in DOMAIN properties[i].type.types :
               Classify(properties[i].name, properties[i].type.types[j],
                        filename) = "InvalidClass")
              => verdicts[i] = "InvalidClass"
         /\ verdicts[i] = "Serializable"
              => \A j \in DOMAIN properties[i].type.types :
                    ~Disqualifies(properties[i].name,
                                  properties[i].type.types[j], filename)

(***************************************************************************)
(* C7 amended: for an intersection, a callable branch puts the field under *)
(* the function rule, whatever the other branches are; when no branch is   *)
(* callable, a branch that is a non-allowlisted class or constructor makes *)
(* the field InvalidClass, and the intersection is Serializable only if no *)
(* branch disqualifies.                                                    *)
(***************************************************************************)
C7_IntersectionFunctionRuleFirst ==
  \A i \in Done :
    isIntersection(properties[i].type)
      => IF \E j \in DOMAIN properties[i].type.types :
               AnyCallable(properties[i].type.types[j])
         THEN verdicts[i] =
                FirstVerdict(properties[i].name, properties[i].type.types,
                             filename, AnyCallable)
         ELSE /\ (\E j \in DOMAIN properties[i].type.types :
                    Classify(properties[i].name,
                             properties[i].type.types[j], filename)
                      = "InvalidClass")
                   => verdicts[i] = "InvalidClass"
              /\ verdicts[i] = "Serializable"
                   => \A j \in DOMAIN properties[i].type.types :
                         ~Disqualifies(properties[i].name,
                                       properties[i].type.types[j], filename)

C7_Witness ==
  \E i \in Done :
    /\ properties[i].type = IntersectionType(<<T_MyClass, T_Primitive>>)
    /\ verdicts[i] = "InvalidClass"

(***************************************************************************)
(* C8: a field whose type is both callable and class-like, with a name     *)
(* that is not exempt, is FunctionNotAction, never InvalidClass, and gets  *)
(* at most one diagnostic, of the function kind.                           *)
(***************************************************************************)
C8_FunctionBeforeClass ==
  \A i \in Done :
    ( /\ AnyCallable(properties[i].type)
      /\ AnyClassShaped(properties[i].type)
      /\ ~ActionName(properties[i].name)
      /\ ~ResetInErrorFile(properties[i].name, filename) )
      => /\ verdicts[i] = "FunctionNotAction"
         /\ Cardinality(ReportsFor(i)) <= 1
         /\ \A k \in ReportsFor(i) :
               reports[k].messageId = "functionNotServerAction"

C8_Witness ==
  \E i \in Done :
    /\ HasCallSignature(properties[i].type)
    /\ ClassShaped(properties[i].type)
    /\ ~Allowlisted(properties[i].type)
    /\ properties[i].name = S_onClick
    /\ verdicts[i] = "FunctionNotAction"
    /\ Cardinality(ReportsFor(i)) = 1

(***************************************************************************)
(* C9 as stated: an object literal, array or mapping is Serializable iff   *)
(* every one of its members is, at every nesting depth.                    *)
(***************************************************************************)
RECURSIVE DeepSerializable(_, _, _)
DeepSerializable(n, t, file) ==
  /\ Classify(n, t, file) = "Serializable"
  /\ \A j \in DOMAIN t.members : DeepSerializable(n, t.members[j], file)

C9_PlainDataByMembers ==
  \A i \in Done :
    properties[i].type \in PlainLeaves
      => ( verdicts[i] = "Serializable"
             <=> \A j \in DOMAIN properties[i].type.members :
                    DeepSerializable(properties[i].name,
                                     properties[i].type.members[j],
                                     filename) )

(***************************************************************************)
(* C9 amended: an object literal, array or mapping is Serializable         *)
(* whatever its members are; the types of the members are not inspected.   *)
(***************************************************************************)
C9_PlainDataSerializable ==
  \A i \in Done :
    properties[i].type \in PlainLeaves
      => (verdicts[i] = "Serializable" /\ ReportsFor(i) = {})

C9_Witness ==
  \E i \in Done :
    /\ properties[i].type \in PlainLeaves
    /\ \E j \in DOMAIN properties[i].type.members :
          properties[i].type.members[j] = T_MyClass
    /\ verdicts[i] = "Serializable"

(***************************************************************************)
(* C10: a primitive, an opaque type, or a union / intersection none of     *)
(* whose branches is callable or class-like, is Serializable and gets no   *)
(* diagnostic, whatever the field name and the file.                       *)
(***************************************************************************)
C10_OtherShapesSerializable ==
  \A i \in Done :
    ( /\ ~AnyCallable(properties[i].type)
      /\ ~AnyClassShaped(properties[i].type) )
      => (verdicts[i] = "Serializable" /\ ReportsFor(i) = {})

C10_Witness ==
  \E i \in Done :
    /\ properties[i].type.flags \in {"Union", "Intersection"}
    /\ properties[i].type.types = <<T_Primitive, T_Interface>>
    /\ properties[i].name = S_onClick
    /\ verdicts[i] = "Serializable"

(***************************************************************************)
(* C11 (as stated): every field of the props type whose verdict is not     *)
(* Serializable has exactly one diagnostic, at its own declaration, and    *)
(* every Serializable field has none.  It fails for a disqualified field   *)
(* whose declaration is missing or is not a node of the linted file:       *)
(* reportInvalidProp then reports nothing.                                 *)
(***************************************************************************)
C11_OneDiagnosticPerDisqualifiedField ==
  \A i \in Done :
    IF verdicts[i] # "Serializable"
    THEN Cardinality(ReportsFor(i)) = 1
    ELSE ReportsFor(i) = {}

(***************************************************************************)
(* C12: diagnostics are emitted in the declaration order of the fields:    *)
(* a step of the loop leaves the diagnostics alone or appends one whose    *)
(* field is declared after the fields of all earlier diagnostics.          *)
(***************************************************************************)
C12_AppendsInDeclarationOrder ==
  \/ reports' = reports
  \/ /\ Len(reports') = Len(reports) + 1
     /\ SubSeq(reports', 1, Len(reports)) = reports
     /\ \A k \in 1..Len(reports) :
           reports[k].node < reports'[Len(reports')].node

C12_DeclarationOrder == [][C12_AppendsInDeclarationOrder]_vars

C12_Witness ==
  /\ Len(reports) = 2
  /\ reports[1].node = 1
  /\ reports[2].node = 2

(***************************************************************************)
(* C13: fields are classified independently.  The verdict of a field is    *)
(* the classification of that field alone, a field with a declaration in   *)
(* the file has its diagnostic exactly when it is disqualified, whatever   *)
(* its siblings are, and the loop reaches every field: one whose           *)
(* declaration is missing or has no node does not end it.                  *)
(***************************************************************************)
C13_FieldsIndependent ==
  /\ \A i \in Done :
        /\ verdicts[i] =
             Classify(properties[i].name, properties[i].type, filename)
        /\ properties[i].valueDeclaration = "mapped" =>
             Cardinality(ReportsFor(i)) =
               IF Disqualifies(properties[i].name, properties[i].type, filename)
               THEN 1 ELSE 0
  /\ idx > Len(properties) => Len(verdicts) = Len(properties)

C13_Witness ==
  /\ Len(properties) = 2
  /\ idx > Len(properties)
  /\ properties[1].valueDeclaration # "mapped"
  /\ verdicts[1] # "Serializable"
  /\ properties[2] = P_onClick
  /\ \E k \in 1..Len(reports) :
        reports[k].node = 2 /\ reports[k].messageId = "functionNotServerAction"

C16_OnlyUseClientModulesChecked ==
  ~FirstIsUseClient => validated = <<>> /\ reports = <<>>

C16_Witness ==
  /\ Finished
  /\ filename = F_comp
  /\ program =
       <<ImportStatement, Directive("use client"),
         LocalStatement("const arrow", Pm_id(PL_bad)),
         ExportStatement("default function", 2, Pm_id(PL_bad))>>
  /\ reports = <<>>

(***************************************************************************)
(* C17 (as stated): a file whose name has a ".test." or ".spec." segment   *)
(* gets no diagnostic.  It fails for names in which the segment is not     *)
(* followed directly by js, jsx, ts or tsx at the end of the name, such    *)
(* as component.test.helper.ts and component.spec.mts.                     *)
(***************************************************************************)
C17_TestSegmentFilesSkipped ==
  ContainsTestSegment(filename) => reports = <<>>

(***************************************************************************)
(* C18 (as stated): in a 'use client' module every exported component is   *)
(* validated, whatever the export form and the function form.  It fails    *)
(* for export default of an identifier that refers to a function           *)
(* expression or to a function declaration, and for export { X } where X   *)
(* is a function declaration.                                              *)
(***************************************************************************)
C18_EveryExportedComponentValidated ==
  (Finished /\ FirstIsUseClient) =>
    ExportedComponents(program) \subseteq ValidatedComponents

(***************************************************************************)
(* C19: components that are not exported are never checked and do not     *)
(* change the diagnostics of the exported ones.  Every validated function  *)
(* is exported by some export statement, the diagnostics of the module     *)
(* are those of the validated functions, and the diagnostics of each are   *)
(* the diagnostics of that component taken by itself.                      *)
(***************************************************************************)
C19_OnlyExportedComponentsChecked ==
  /\ ValidatedComponents \subseteq ExportedComponents(program)
  /\ validated = <<>> => reports = <<>>
  /\ validated # <<>> => validated[1].first = 1
  /\ \A k \in 1..Len(validated) :
        Completed(k) =>
          DiagnosticsOf(k) = ComponentDiagnostics(validated[k].node, filename)

C19_Witness ==
  /\ Finished
  /\ program =
       <<Directive("use client"),
         LocalStatement("function declaration", Pm_id(PL_bad)),
         ExportStatement("export function", 2, Pm_id(PL_good))>>
  /\ ValidatedComponents = {2}
  /\ reports = <<>>

(***************************************************************************)
(* C20: destructuring the props parameter does not change the result.  A   *)
(* component whose first parameter is an object pattern has the same       *)
(* sequence of diagnostics as a component with an identifier parameter of  *)
(* the same props type; the names tested for the exceptions are the        *)
(* property names of the type, not the local names the pattern binds.      *)
(***************************************************************************)
C20_DestructuringSameDiagnostics ==
  \A k1, k2 \in 1..Len(validated) :
    (/\ Completed(k1)
     /\ Completed(k2)
     /\ validated[k1].node.params # <<>>
     /\ validated[k2].node.params # <<>>
     /\ validated[k1].node.params[1].type = "Identifier"
     /\ validated[k2].node.params[1].type = "ObjectPattern"
     /\ validated[k1].node.params[1].tsNode
     /\ validated[k2].node.params[1].tsNode
     /\ validated[k1].node.params[1].props = validated[k2].node.params[1].props)
      => DiagnosticsOf(k1) = DiagnosticsOf(k2)

C20_Witness ==
  /\ Finished
  /\ Len(validated) = 2
  /\ validated[1].node.params = Pm_id(PL_bad)
  /\ validated[2].node.params = Pm_obj(PL_bad, <<S_submitAction, S_name>>)
  /\ DiagnosticsOf(1) = DiagnosticsOf(2)
  /\ Len(DiagnosticsOf(2)) = 2
  /\ DiagnosticsOf(2)[1].propName = S_onClick

(***************************************************************************)
(* C21: classification is idempotent and deterministic.  A step that       *)
(* classifies a field gives it the verdict, and the diagnostic or none,    *)
(* that every earlier classification of the same field in the same file    *)
(* got, whatever was classified in between, and it changes neither the     *)
(* file context nor the fields.                                            *)
(***************************************************************************)
C21_SameFieldSameVerdict ==
  Len(verdicts') = Len(verdicts) + 1 =>
    /\ filename' = filename
    /\ properties' = properties
    /\ SubSeq(verdicts', 1, Len(verdicts)) = verdicts
    /\ \A j \in 1..Len(verdicts) :
          properties[j] = properties[Len(verdicts')] =>
            /\ verdicts'[Len(verdicts')] = verdicts[j]
            /\ {reports'[k].messageId :
                  k \in {h \in 1..Len(reports') :
                           reports'[h].node = Len(verdicts')}}
               = {reports[k].messageId : k \in ReportsFor(j)}

C22_ExactNameMatch ==
  \A i \in Done :
    ( /\ properties[i].type.flags = "Object"
      /\ ClassShaped(properties[i].type)
      /\ ~HasCallSignature(properties[i].type)
      /\ properties[i].type.symbol.defined )
      => /\ verdicts[i] = "Serializable" <=>
              \E b \in SERIALIZABLE_BUILT_INS :
                 SameString(properties[i].type.symbol.name, b)
         /\ properties[i].type.symbol.name \in NearMisses =>
              verdicts[i] = "InvalidClass"

C22_Witness ==
  \E i \in Done :
    /\ properties[i].type = UserClass("DateTime")
    /\ properties[i].name = S_instance
    /\ verdicts[i] = "InvalidClass"
    /\ Cardinality(ReportsFor(i)) = 1

(***************************************************************************)
(* C23: the allowlist holds at least Date, Map, Set, Promise, RegExp,      *)
(* Error and its six subtypes, ArrayBuffer and the typed arrays, Blob,     *)
(* File, Array and Object, and a class instance or constructor type        *)
(* without call signature that has one of these names is Serializable and  *)
(* gets no diagnostic.                                                     *)
(***************************************************************************)
C23_RequiredBuiltInsSerializable ==
  /\ RequiredBuiltIns \subseteq SERIALIZABLE_BUILT_INS
  /\ \A i \in Done :
        ( /\ properties[i].type.flags = "Object"
          /\ ClassShaped(properties[i].type)
          /\ ~HasCallSignature(properties[i].type)
          /\ properties[i].type.symbol.defined
          /\ properties[i].type.symbol.name \in RequiredBuiltIns )
          => verdicts[i] = "Serializable" /\ ReportsFor(i) = {}

C23_Witness ==
  \E i \in Done :
    /\ properties[i].type = UserConstructor("RangeError")
    /\ properties[i].name = S_instance
    /\ verdicts[i] = "Serializable"
    /\ reports = <<>>

(***************************************************************************)
(* C30: allowlisting is by name, not by origin.  An instance or the        *)
(* constructor of a class declared in the program whose name is an entry   *)
(* of the allowlist has the verdict of the host type of that name, which   *)
(* is Serializable; under a name that is no entry it is InvalidClass.      *)
(***************************************************************************)
C30_AllowlistByNameNotOrigin ==
  \A i \in Done :
    ( /\ properties[i].type.flags = "Object"
      /\ HasClassDeclaration(properties[i].type)
      /\ ~HasCallSignature(properties[i].type) )
      => verdicts[i] =
           IF properties[i].type.symbol.name \in SERIALIZABLE_BUILT_INS
           THEN Classify(properties[i].name,
                         HostBuiltIn(properties[i].type.symbol.name), filename)
           ELSE "InvalidClass"

C30_Witness ==
  \E i \in Done :
    /\ properties[i].type = UserClass("File")
    /\ properties[i].name = S_instance
    /\ verdicts[i] = "Serializable"
    /\ Classify(S_instance, HostBuiltIn("File"), filename) = "Serializable"

(***************************************************************************)
(* C24 (as stated): every FunctionNotAction verdict is reported with the   *)
(* message functionNotServerAction and every InvalidClass verdict with     *)
(* the message invalidProp, the propName of the diagnostic being the name  *)
(* of the field.  It fails with C11: for a field whose declaration is      *)
(* missing or is not a node of the linted file nothing is reported.        *)
(***************************************************************************)
C24_VerdictKindReported ==
  \A i \in Done :
    /\ verdicts[i] = "FunctionNotAction" =>
         \E k \in ReportsFor(i) :
           /\ reports[k].messageId = "functionNotServerAction"
           /\ reports[k].propName = properties[i].name
    /\ verdicts[i] = "InvalidClass" =>
         \E k \in ReportsFor(i) :
           /\ reports[k].messageId = "invalidProp"
           /\ reports[k].propName = properties[i].name

(***************************************************************************)
(* C25: a component without parameters, or whose first parameter is        *)
(* neither an identifier nor an object pattern, gets no diagnostic, and    *)
(* only the type of the first parameter is classified: every diagnostic    *)
(* of a component names a property of its first parameter, and the fields  *)
(* under classification are those of the first parameter.                  *)
(***************************************************************************)
C25_OnlyFirstParameterClassified ==
  \A k \in 1..Len(validated) :
    IF \/ validated[k].node.params = <<>>
       \/ validated[k].node.params[1].type \notin {"Identifier", "ObjectPattern"}
    THEN ~validated[k].loop /\ DiagnosticsOf(k) = <<>>
    ELSE /\ \A d \in 1..Len(DiagnosticsOf(k)) :
              /\ DiagnosticsOf(k)[d].node
                   \in DOMAIN validated[k].node.params[1].props
              /\ DiagnosticsOf(k)[d].propName =
                   validated[k].node.params[1].props[DiagnosticsOf(k)[d].node].name
         /\ (k = Len(validated) /\ validated[k].loop) =>
              properties = validated[k].node.params[1].props

C25_Witness ==
  /\ Finished
  /\ Len(validated) = 2
  /\ validated[1].node.params = Pm_two(PL_good, PL_bad)
  /\ validated[1].loop
  /\ validated[2].node.params = Pm_default(PL_bad)
  /\ ~validated[2].loop
  /\ reports = <<>>

(***************************************************************************)
(* C26: first match wins across composite shapes.  When some branch of a   *)
(* union or intersection is callable, at any depth, the verdict is that of *)
(* the function rule alone: Serializable under an exempt name, otherwise   *)
(* FunctionNotAction, whatever classes the other branches are and          *)
(* whatever the order of the branches.                                     *)
(***************************************************************************)
C26_CallableBranchDecides ==
  \A i \in Done :
    ( /\ isUnion(properties[i].type) \/ isIntersection(properties[i].type)
      /\ AnyCallable(properties[i].type) )
      => /\ verdicts[i] =
              IF ExemptName(properties[i].name, filename)
              THEN "Serializable" ELSE "FunctionNotAction"
         /\ verdicts[i] =
              Classify(properties[i].name, Reversed(properties[i].type),
                       filename)

C26_Witness ==
  \E i \in Done :
    /\ properties[i].type = UnionType(<<T_Function, T_MyClass>>)
    /\ properties[i].name = S_submitAction
    /\ verdicts[i] = "Serializable"
    /\ Classify(S_onClick, UnionType(<<T_MyClass, T_Function>>), filename)
         = "FunctionNotAction"

(***************************************************************************)
(* C27: the exceptions by name and by file apply to functions only.  A     *)
(* class instance or constructor type that is not allowlisted and has no   *)
(* call signature is InvalidClass under every name, "action", "...Action"  *)
(* and "reset" in an error file included, and the file changes the verdict *)
(* of no field other than a function named "reset".                        *)
(***************************************************************************)
C27_ExceptionsForFunctionsOnly ==
  \A i \in Done :
    /\ ( /\ properties[i].type.flags = "Object"
         /\ ClassShaped(properties[i].type)
         /\ ~Allowlisted(properties[i].type)
         /\ ~HasCallSignature(properties[i].type) )
         => verdicts[i] = "InvalidClass"
    /\ ~(AnyCallable(properties[i].type) /\ properties[i].name = S_reset)
         => \A f \in Filenames :
               Classify(properties[i].name, properties[i].type, f)
                 = verdicts[i]

C27_Witness ==
  \E i \in Done :
    /\ properties[i].type = T_MyClass
    /\ properties[i].name = S_reset
    /\ filename = F_appError
    /\ verdicts[i] = "InvalidClass"
    /\ Classify(S_submitAction, T_MyClass, filename) = "InvalidClass"

(***************************************************************************)
(* C28: the 'use client' flag is state of one lint.  The traversal of a    *)
(* file starts with the flag false; the flag changes only when create      *)
(* declares it false and when the Program visit sets it true; the visits   *)
(* of the statements, and every call they make, come after the Program     *)
(* visit, with the flag true exactly when the first statement of this      *)
(* file is the directive; so a file without the directive has no           *)
(* diagnostic, whatever was linted before it.                              *)
(***************************************************************************)
C28_FlagStep ==
  /\ phase' = "Program" => ~hasUseClientDirective'
  /\ hasUseClientDirective' # hasUseClientDirective =>
       \/ phase = "create" /\ ~hasUseClientDirective'
       \/ phase = "Program" /\ phase' = "body" /\ hasUseClientDirective'
  /\ phase' = "body" => (hasUseClientDirective' <=> FirstIsUseClient')
  /\ (cursor' > 1 \/ queue' # <<>> \/ validated' # <<>>) => phase' = "body"
  /\ ~FirstIsUseClient' => reports' = <<>> /\ validated' = <<>>

C28_FlagPerFile == [][C28_FlagStep]_vars

C28_Witness ==
  /\ filename = F_appComp
  /\ phase = "create"
  /\ hasUseClientDirective
  /\ program =
       <<LocalStatement("const arrow", Pm_id(PL_bad)),
         ExportStatement("default function", 2, Pm_id(PL_bad))>>

(***************************************************************************)
(* C29 (as stated): within one lint of a module a disqualified field of a  *)
(* component is reported at most once, also when several export            *)
(* statements reach the component.  It fails: every export statement that  *)
(* reaches the component validates it again and reports its fields again.  *)
(***************************************************************************)
C29_FieldReportedOnce ==
  \A k1, k2 \in 1..Len(validated) :
    (k1 < k2 /\ validated[k1].fn = validated[k2].fn) =>
      \A d1 \in 1..Len(DiagnosticsOf(k1)), d2 \in 1..Len(DiagnosticsOf(k2)) :
        DiagnosticsOf(k1)[d1].node # DiagnosticsOf(k2)[d2].node

====
